---- MODULE Spec2Model ----
(***************************************************************************)
(* bootlogger: the capture-filter-merge pipeline of                        *)
(* debug-tools/bootlogger (Logger.cpp, AuditToAllow.cpp, LoggerInternal.h).*)
(*                                                                         *)
(* Text is modelled as TLA+ strings and handled character by character     *)
(* (Len, SubSeq, \o), so that searching, tokenising, trimming, integer     *)
(* extraction and rendering are computed the way the code computes them.   *)
(***************************************************************************)
EXTENDS Integers, Sequences, FiniteSets, TLC

(***************************************************************************)
(* Characters and strings (std::string, std::string_view)                  *)
(***************************************************************************)

\* The printable ASCII characters in code order: ' ' (32) to '_' (95), and
\* 'a' (97) to '~' (126); '`' (96) cannot be written in a TLA+ string and
\* occurs in no line of the model.
AsciiLow ==
  " !\"#$%&'()*+,-./0123456789:;<=>?@ABCDEFGHIJKLMNOPQRSTUVWXYZ[\\]^_"

AsciiHigh == "abcdefghijklmnopqrstuvwxyz{|}~"

\* s[i], 1-based; the empty string past either end (the terminating NUL)
Ch(s, i) == IF i >= 1 /\ i <= Len(s) THEN SubSeq(s, i, i) ELSE ""

\* std::string::find(pat, from): the least position >= from where pat
\* occurs, 0 for npos
FindFrom(s, pat, from) ==
  LET hits == { i \in from..(Len(s) - Len(pat) + 1) :
                  SubSeq(s, i, i + Len(pat) - 1) = pat }
  IN  IF hits = {} THEN 0 ELSE CHOOSE i \in hits : \A k \in hits : i <= k

Find(s, pat) == FindFrom(s, pat, 1)

\* whether pat occurs in s at position i
StartsAt(s, i, pat) ==
  i >= 1 /\ i + Len(pat) - 1 <= Len(s) /\ SubSeq(s, i, i + Len(pat) - 1) = pat

\* the character's code (unsigned char value)
Code(c) ==
  IF c = "" THEN 0
  ELSE IF FindFrom(AsciiLow, c, 1) # 0 THEN FindFrom(AsciiLow, c, 1) + 31
  ELSE FindFrom(AsciiHigh, c, 1) + 96

IsDigit(c) == Code(c) >= 48 /\ Code(c) <= 57

\* regex \w : [A-Za-z0-9_], as character codes
WordCodes == (48..57) \cup (65..90) \cup (97..122) \cup {95}

IsWordCh(c) == Code(c) \in WordCodes

\* isspace / regex \s, for the characters a line can hold
IsSpace(c) == c = " " \/ c = "\t"

\* the first position >= i of s that holds no white space (Len(s) + 1 if none)
SkipSpaces(s, i) ==
  LET stops == { k \in i..Len(s) : ~IsSpace(Ch(s, k)) }
  IN  IF stops = {} THEN Len(s) + 1
      ELSE CHOOSE k \in stops : \A m \in stops : k <= m

\* the first position >= i of s that holds no character of the class, a
\* set of character codes
RunEnd(s, i, class) ==
  LET stops == { k \in i..Len(s) : Code(Ch(s, k)) \notin class }
  IN  IF stops = {} THEN Len(s) + 1
      ELSE CHOOSE k \in stops : \A m \in stops : k <= m

\* std::string operator< : lexicographic on the character codes
RECURSIVE StrLess(_, _)
StrLess(a, b) ==
  IF Len(b) = 0 THEN FALSE
  ELSE IF Len(a) = 0 THEN TRUE
  ELSE IF Code(Ch(a, 1)) # Code(Ch(b, 1)) THEN Code(Ch(a, 1)) < Code(Ch(b, 1))
  ELSE StrLess(Tail(a), Tail(b))

\* the iteration order of a std::set<std::string>: ascending, no duplicates
RECURSIVE SetOrder(_)
SetOrder(S) ==
  IF S = {} THEN << >>
  ELSE LET m == CHOOSE x \in S : \A y \in S \ {x} : StrLess(x, y)
       IN  << m >> \o SetOrder(S \ {m})

\* fmt::join(range, sep) formatted with "{}"
RECURSIVE Join(_, _)
Join(seq, sep) ==
  IF Len(seq) = 0 THEN ""
  ELSE IF Len(seq) = 1 THEN seq[1]
  ELSE seq[1] \o sep \o Join(Tail(seq), sep)

\* while (iss >> line) lines.emplace_back(line): the maximal runs of
\* non-space characters, in order
RECURSIVE Tokens(_)
Tokens(s) ==
  IF Len(s) = 0 THEN << >>
  ELSE IF IsSpace(Ch(s, 1)) THEN Tokens(Tail(s))
  ELSE LET stops == { i \in 1..Len(s) : IsSpace(Ch(s, i)) }
           e     == IF stops = {} THEN Len(s) + 1
                    ELSE CHOOSE i \in stops : \A k \in stops : i <= k
       IN  << SubSeq(s, 1, e - 1) >> \o Tokens(SubSeq(s, e, Len(s)))

(***************************************************************************)
(* AuditToAllow.cpp: the context normalizer and the audit-record parser    *)
(***************************************************************************)

\* TrimDoubleQuote
TrimDoubleQuote(str) ==
  IF Len(str) > 2 /\ Ch(str, 1) = "\"" /\ Ch(str, Len(str)) = "\""
  THEN SubSeq(str, 2, Len(str) - 1)
  ELSE str

\* [\w-]
IsTypeCh(c) == IsWordCh(c) \/ c = "-"

\* A constructor that on a match only drops "object_" from the context; the
\* program does not do this.
SEContextCtorKeepsRole(context) ==
  IF StartsAt(context, 1, "u:object_r:")
  THEN "u:r:" \o SubSeq(context, 12, Len(context))
  ELSE context

\* SEContext::SEContext: regex_match against ^u:(object_)?r:([\w-]+):s0(.+)?$ ;
\* on a match m_context becomes group 2, otherwise it stays the input.
SEContextCtor(context) ==
  LET p == IF StartsAt(context, 1, "u:object_r:") THEN 12
           ELSE IF StartsAt(context, 1, "u:r:") THEN 5
           ELSE 0
      stops == { i \in p..Len(context) : ~IsTypeCh(Ch(context, i)) }
      e == IF stops = {} THEN Len(context) + 1
           ELSE CHOOSE i \in stops : \A k \in stops : i <= k
  IN  IF p # 0 /\ e > p /\ StartsAt(context, e, ":s0")
      THEN SubSeq(context, p, e - 1)
      ELSE context

IntMax == 2147483647

\* the value of a run of decimal digits, -1 when it exceeds IntMax
RECURSIVE DigitsVal(_, _)
DigitsVal(s, acc) ==
  IF Len(s) = 0 THEN acc
  ELSE LET d == Code(Ch(s, 1)) - 48
       IN  IF acc > (IntMax - d) \div 10 THEN -1
           ELSE DigitsVal(Tail(s), acc * 10 + d)

\* std::stringstream(s) >> x for int x: leading white space is skipped, an
\* optional sign and the longest run of decimal digits are read and what
\* follows is left in the stream; no digit, or a value out of int's range,
\* fails the extraction (x is then 0, or the nearest bound).
StreamExtractInt(s) ==
  LET nonsp == { i \in 1..Len(s) : ~IsSpace(Ch(s, i)) }
      b  == IF nonsp = {} THEN Len(s) + 1
            ELSE CHOOSE i \in nonsp : \A k \in nonsp : i <= k
      sg == b <= Len(s) /\ (Ch(s, b) = "-" \/ Ch(s, b) = "+")
      d  == IF sg THEN b + 1 ELSE b
      stops == { i \in d..Len(s) : ~IsDigit(Ch(s, i)) }
      e  == IF stops = {} THEN Len(s) + 1
            ELSE CHOOSE i \in stops : \A k \in stops : i <= k
      mag == DigitsVal(SubSeq(s, d, e - 1), 0)
      neg == sg /\ Ch(s, b) = "-"
  IN  IF e = d THEN [ok |-> FALSE, x |-> 0]
      ELSE IF mag = -1 THEN [ok |-> FALSE, x |-> IF neg THEN 0 - IntMax ELSE IntMax]
      ELSE [ok |-> TRUE, x |-> IF neg THEN 0 - mag ELSE mag]

\* an AttributeMap (std::map<std::string, std::string>) with no entry
NoAttributes == [k \in {} |-> ""]

\* std::map::emplace: an existing key keeps its value
Emplace(m, k, v) == IF k \in DOMAIN m THEN m ELSE m @@ (k :> v)

\* std::map::erase
Erase(m, k) == [a \in DOMAIN m \ {k} |-> m[a]]

\* The members of an AvcContext as the constructor's initializer list leaves
\* them: stale(true); granted and permissive are not initialized and are read
\* only of a record that is not stale.
NewAvcContext ==
  [granted |-> FALSE, operation |-> {}, scontext |-> "", tcontext |-> "",
   tclass |-> "", misc_attributes |-> NoAttributes, permissive |-> FALSE,
   stale |-> TRUE]

\* the key=value loop of the constructor, from token it to the last token
RECURSIVE ParseAttributes(_, _, _)
ParseAttributes(lines, it, misc) ==
  IF it > Len(lines) THEN misc
  ELSE LET idx == Find(lines[it], "=")
       IN  IF idx = 0 THEN ParseAttributes(lines, it + 1, misc)
           ELSE ParseAttributes(lines, it + 1,
                  Emplace(misc, SubSeq(lines[it], 1, idx - 1),
                          TrimDoubleQuote(SubSeq(lines[it], idx + 1, Len(lines[it])))))

\* AvcContext::findOrDie(std::string&, key): dest is assigned and the key is
\* erased when the key is there.
FindOrDie(misc, dest, key) ==
  IF key \in DOMAIN misc
  THEN [ret |-> TRUE, dest |-> misc[key], misc |-> Erase(misc, key)]
  ELSE [ret |-> FALSE, dest |-> dest, misc |-> misc]

\* AvcContext::findOrDie(SEContext&, key)
FindOrDieSEContext(misc, dest, key) ==
  LET r == FindOrDie(misc, "", key)
  IN  IF r.ret THEN [ret |-> TRUE, dest |-> SEContextCtor(r.dest), misc |-> r.misc]
      ELSE [ret |-> FALSE, dest |-> dest, misc |-> misc]

\* The required-field extraction and the permissive check that end the
\* constructor (the code after the key=value loop).
ExtractRequired(ctx) ==
  LET hasPit == "permissive" \in DOMAIN ctx.misc_attributes
      s  == FindOrDieSEContext(ctx.misc_attributes, ctx.scontext, "scontext")
      t  == FindOrDieSEContext(s.misc, ctx.tcontext, "tcontext")
      c  == FindOrDie(t.misc, ctx.tclass, "tclass")
      ret == s.ret /\ t.ret /\ c.ret /\ hasPit
      c1 == [ctx EXCEPT !.scontext = s.dest, !.tcontext = t.dest,
                        !.tclass = c.dest, !.misc_attributes = c.misc]
  IN  IF ~ret THEN c1
      ELSE LET r == StreamExtractInt(c.misc["permissive"])
           IN  IF r.ok /\ (r.x = 0 \/ r.x = 1)
               THEN [c1 EXCEPT !.permissive = (r.x = 1),
                               !.misc_attributes = Erase(c.misc, "permissive"),
                               !.stale = FALSE]
               ELSE c1

\* AvcContext::AvcContext(string_view).  The result names how the call ends:
\*   fault = "none"          it returns, ctx is the constructed record;
\*   fault = "out_of_range"  string.substr(npos) throws std::out_of_range;
\*   fault = "ub"            an iterator is moved or read past lines.end().
AvcContextCtor(string) ==
  LET pos   == Find(string, "avc:")
      lines == Tokens(SubSeq(string, pos, Len(string)))
      n     == Len(lines)
      closes == { k \in 5..n : lines[k] = "}" }
      close == IF closes = {} THEN 0
               ELSE CHOOSE k \in closes : \A j \in closes : k <= j
  IN  IF pos = 0 THEN [fault |-> "out_of_range", ctx |-> NewAvcContext]
      ELSE IF n < 2 THEN [fault |-> "ub", ctx |-> NewAvcContext]
      ELSE IF lines[2] \notin {"granted", "denied"}
           THEN [fault |-> "none", ctx |-> NewAvcContext]
      ELSE IF n < 4 \/ close = 0 \/ close = n
           THEN [fault |-> "ub", ctx |-> NewAvcContext]
      ELSE LET c0 == [NewAvcContext EXCEPT
                        !.granted = (lines[2] = "granted"),
                        !.operation = { lines[k] : k \in 4..(close - 1) }]
           IN  IF close + 2 = n + 1 THEN [fault |-> "none", ctx |-> c0]
               ELSE [fault |-> "none",
                     ctx |-> ExtractRequired(
                               [c0 EXCEPT !.misc_attributes =
                                  ParseAttributes(lines, close + 2, NoAttributes)])]

(***************************************************************************)
(* The lines of the model.  What the parser and the two regular            *)
(* expressions make of a line depends on the line alone; it is computed    *)
(* once for every line of the model and looked up afterwards.              *)
(***************************************************************************)

\* lines the kernel log can deliver
KmsgLines ==
  { "audit: avc: denied { read } for scontext=u:r:init:s0 tcontext=u:object_r:sysfs:s0 tclass=file permissive=0",
    "init: starting service" }

\* std::array<char, 512> buf
BufSize == 512

RECURSIVE Repeat(_, _)
Repeat(s, n) == IF n = 0 THEN "" ELSE s \o Repeat(s, n - 1)

\* a line of the kernel log that does not fit buf: 526 characters
LongLine == "init: " \o Repeat("0123456789", 52)

\* ::fgets(data.data(), data.size(), stream) on a stream that holds data, a
\* line with its line feed: at most size - 1 characters, up to the line feed
Fgets(data) ==
  LET n == IF Len(data) < BufSize - 1 THEN Len(data) ELSE BufSize - 1
  IN  [chunk |-> SubSeq(data, 1, n), rest |-> SubSeq(data, n + 1, Len(data))]

\* std::getline on the stream over a chunk of fgets: the chunk without its
\* line feed
Getline(chunk) ==
  IF SubSeq(chunk, Len(chunk), Len(chunk)) = "\n"
  THEN SubSeq(chunk, 1, Len(chunk) - 1)
  ELSE chunk

\* what getline yields of LongLine, chunk after chunk
LongLineParts ==
  { Getline(Fgets(LongLine \o "\n").chunk),
    Getline(Fgets(Fgets(LongLine \o "\n").rest).chunk) }

\* lines logcat can deliver
LogcatLines ==
  { "W sh: avc: denied { read } for scontext=u:r:shell:s0 tcontext=u:object_r:sysfs:s0 tclass=file permissive=0",
    "W sh: avc: denied { write } for scontext=u:r:shell:s0 tcontext=u:object_r:sysfs:s0 tclass=file permissive=0",
    "W libc : Access denied finding property \"ro.foo\"" }

\* lines given to FilterAvcGen::filter on its own
AuditLines ==
  { "avc: denied { read } for scontext=u:r:init:s0 tcontext=u:object_r:sysfs:s0 tclass=file permissive=0",
    "avc: denied { write } for scontext=u:r:init:s0 tcontext=u:object_r:sysfs:s0 tclass=file permissive=0",
    "avc: granted { write } for scontext=u:r:init:s0 tcontext=u:object_r:sysfs:s0 tclass=file permissive=1",
    "avc: denied { read } for name=\"x\" scontext=u:r:init:s0 tcontext=u:object_r:sysfs:s0 tclass=file permissive=0",
    "avc: denied { sys_admin } for scontext=u:r:init:s0 tcontext=u:r:init:s0 tclass=capability permissive=0",
    "avc: denied { write read } for scontext=u:r:untrusted_app:s0 tcontext=u:object_r:system_file:s0 tclass=file permissive=0",
    "avc: denied { open } for scontext=u:r:shell:s0 tcontext=u:object_r:sysfs:s0 tclass=dir permissive=1x",
    "avc: denied { read } for scontext=u:r:init:s0 tcontext=u:object_r:sysfs:s0 tclass=file permissive=maybe",
    "avc: denied { read } for scontext=u:r:init:s0 tcontext=u:object_r:sysfs:s0 tclass=file permissive=2",
    "avc: denied { read } for scontext=u:r:init:s0 tcontext=u:object_r:sysfs:s0 permissive=0",
    "avc: denied { read } for scontext=u:r:init:s0 tcontext=u:object_r:sysfs:s0 tclass=file",
    "avc: revoked { read } for scontext=u:r:init:s0 tcontext=u:object_r:sysfs:s0 tclass=file permissive=0",
    "avc: denied { read",
    "avc: denied { read }",
    "avc: denied { read } for",
    "avc:",
    "init: starting service" }

\* lines given to FilterLibc::filter on its own
LibcLines ==
  { "libc : Access denied finding property \"ro.foo\"",
    "libc : Access denied finding property \"ro.bar\"",
    "libc : Unable to set property \"ctl.start\" to \"foo@1.0\"",
    "libc : Unable to set property \"ro.foo\" to \"1\"",
    "libc: property service is up" }

ModelLines ==
  KmsgLines \cup LogcatLines \cup AuditLines \cup LibcLines \cup LongLineParts

(***************************************************************************)
(* AuditToAllow.cpp, LoggerInternal.h: the merge step and the formatters   *)
(***************************************************************************)

\* A merge that does not compare granted; the program does not do this.
PlusEqAnyGranted(a, b) ==
  IF ~a.stale /\ ~b.stale
     /\ a.scontext = b.scontext
     /\ a.tcontext = b.tcontext /\ a.tclass = b.tclass
  THEN [a |-> [a EXCEPT !.operation = a.operation \cup b.operation],
        b |-> [b EXCEPT !.stale = TRUE]]
  ELSE [a |-> a, b |-> b]

\* A merge that compares scontext alone; the program does not do this.
PlusEqSameSource(a, b) ==
  IF ~a.stale /\ ~b.stale /\ a.scontext = b.scontext
  THEN [a |-> [a EXCEPT !.operation = a.operation \cup b.operation],
        b |-> [b EXCEPT !.stale = TRUE]]
  ELSE [a |-> a, b |-> b]

\* AvcContext::operator+= : a is *this, b is other; both are returned as the
\* call leaves them.
PlusEq(a, b) ==
  IF ~a.stale /\ ~b.stale
     /\ a.granted = b.granted /\ a.scontext = b.scontext
     /\ a.tcontext = b.tcontext /\ a.tclass = b.tclass
  THEN [a |-> [a EXCEPT !.operation = a.operation \cup b.operation],
        b |-> [b EXCEPT !.stale = TRUE]]
  ELSE [a |-> a, b |-> b]

\* A formatter that puts the braces around one operation as well; the
\* program does not do this.
FormatAvcContextBraced(context) ==
  "allow " \o context.scontext \o " " \o context.tcontext \o ":"
    \o context.tclass \o " { " \o Join(SetOrder(context.operation), " ") \o " };"

\* fmt::formatter<AvcContext>::format
FormatAvcContext(context) ==
  LET prefix == "allow " \o context.scontext \o " " \o context.tcontext
                  \o ":" \o context.tclass
  IN  IF Cardinality(context.operation) = 1
      THEN prefix \o " " \o SetOrder(context.operation)[1] \o ";"
      ELSE prefix \o " { " \o Join(SetOrder(context.operation), " ") \o " };"

\* the predicate of fmt::formatter<AvcContexts>'s remove_if, negated
Kept(context) == ~(context.stale \/ Cardinality(context.operation) = 0)

\* the records fmt::formatter<AvcContexts> formats, each formatted, in order
FormattedContexts(contexts) ==
  LET filtered_contexts == SelectSeq(contexts, Kept)
  IN  [k \in 1..Len(filtered_contexts) |-> FormatAvcContext(filtered_contexts[k])]

\* fmt::formatter<AvcContexts>::format
FormatAvcContexts(contexts) == Join(FormattedContexts(contexts), "\n")

VARIABLES
  mpc,          \* main: where it is
  has_audit,    \* main: has_audit
  run,          \* main: std::atomic_bool run
  threads,      \* main: std::vector<std::thread> threads, by worker name
  joined,       \* main: how many of threads the join loop has joined
  proc,         \* the process: "running", "exited" (main returned), "aborted"
  status,       \* the exit status main returned, -1 before
  crash,        \* the line and the fault that aborted the process
  wpc,          \* start: where each worker is
  fp,           \* start: _fp, "null", "open" or "released"
  logFile,      \* start: whether logFile is open
  reads,        \* start: how many lines fgets has returned
  filters,      \* start: filters, each filter's std::set of lines
  propsDenied,  \* FilterLibc::filter: static propsDenied
  dir,          \* the log directory
  logged,       \* start: what LOG(ERROR) and LOG(INFO) have reported
  arrived,      \* history: the lines fgets has returned to each worker
  afterFlip,    \* history: how many times fgets has returned to each worker
                \* with run false
  pending,      \* what is left in each source of the line fgets returned a part of
  delivered,    \* history: the lines each source has given to fgets
  accessed,     \* history: the objects each worker has accessed
  env,          \* history: what main has read of the kernel configuration
                \* and of the property ro.logd.kernel
  lineFacts,    \* for every line of the model, what the parser and the two
                \* regular expressions make of it; set once, never changed
  textFacts,    \* for every set of lines a worker can hold, what the two
                \* write functions put into the file; set once, never changed
  lineSet,      \* a filter taken alone: the std::set its lines are put in
  call,         \* a filter taken alone: the last call and what it returned
  out,          \* a filter taken alone: what write has put in the file
  history       \* a filter taken alone: the lines of the calls before

vars == << mpc, env, has_audit, run, threads, joined, proc, status, crash, wpc, fp,
           logFile, reads, filters, propsDenied, dir, logged, arrived,
           afterFlip, pending, delivered, accessed, lineFacts, textFacts, lineSet, call, out, history >>

\* what the pipeline leaves alone
idleVars == << lineFacts, textFacts, lineSet, call, out, history >>

(***************************************************************************)
(* Logger.cpp: the filters                                                 *)
(***************************************************************************)

\* the tail  \s\}\sfor\s  of kAvcMessageRegEX, with the '}' expected at i + 1
AvcTail(s, i) ==
  /\ IsSpace(Ch(s, i)) /\ Ch(s, i + 1) = "}" /\ IsSpace(Ch(s, i + 2))
  /\ StartsAt(s, i + 3, "for") /\ IsSpace(Ch(s, i + 6))

\* (\s\w+)+ then the tail, from position i; seen: one operation was matched
RECURSIVE AvcOperations(_, _, _)
AvcOperations(s, i, seen) ==
  IF ~IsSpace(Ch(s, i)) THEN FALSE
  ELSE IF Ch(s, i + 1) = "}" THEN seen /\ AvcTail(s, i)
  ELSE LET e == RunEnd(s, i + 1, WordCodes)
       IN  e > i + 1 /\ AvcOperations(s, e, TRUE)

\* kAvcMessageRegEX  avc:\s+denied\s+\{(\s\w+)+\s\}\sfor\s  matched at i
AvcMessageAt(s, i) ==
  /\ StartsAt(s, i, "avc:")
  /\ LET d == SkipSpaces(s, i + 4)
     IN  /\ d > i + 4 /\ StartsAt(s, d, "denied")
         /\ LET b == SkipSpaces(s, d + 6)
            IN  b > d + 6 /\ Ch(s, b) = "{" /\ AvcOperations(s, b + 1, FALSE)

\* FilterAvc::filter
FilterAvcFilter(line) ==
  /\ \E i \in 1..Len(line) : AvcMessageAt(line, i)
  /\ Find(line, "untrusted_app") = 0

\* FilterAvcGen::filter.  The result names how the call ends, as the
\* constructor it calls: fault "none" with the value returned, or the fault.
FilterAvcGenFilter(line) ==
  LET r == lineFacts[line].ctor
  IN  [fault |-> r.fault, ret |-> ~r.ctx.stale]

\* std::transform(results..., AvcContext(file)): results is a std::set, so
\* the records come in the ascending order of the lines.  Every line of
\* results passed FilterAvcGen::filter, so the constructor returns for it.
Translate(results) ==
  LET ordered == SetOrder(results)
  IN  [k \in 1..Len(ordered) |-> lineFacts[ordered[k]].ctor.ctx]

\* the loops "for e1 : contexts, for e2 : contexts, e1 += e2", from the
\* pair (i, j) on
RECURSIVE CombineFrom(_, _, _)
CombineFrom(contexts, i, j) ==
  IF i > Len(contexts) THEN contexts
  ELSE IF j > Len(contexts) THEN CombineFrom(contexts, i + 1, 1)
  ELSE IF i = j THEN CombineFrom(contexts, i, j + 1)
  ELSE LET r == PlusEq(contexts[i], contexts[j])
       IN  CombineFrom([contexts EXCEPT ![i] = r.a, ![j] = r.b], i, j + 1)

Combine(contexts) == CombineFrom(contexts, 1, 1)

\* FilterAvcGen::write, from the translation to the text put into the file
\* (results is not empty)
FilterAvcGenText(results) == FormatAvcContexts(Combine(Translate(results))) \o "\n"

\* Filter::write, inherited by FilterAvc and FilterLibc: the text put into
\* the file (results is not empty)
FilterText(results) == Join(SetOrder(results), "\n")

\* [a-zA-z.], as character codes
PropCodes == (65..122) \cup {46}

\* [a-zA-z0-9.@:\/], as character codes
DestCodes == PropCodes \cup (48..57) \cup {64, 58, 47}

\* \w+\s repeated n times from position i: the position after, 0 on no match
RECURSIVE WordsThenSpace(_, _, _)
WordsThenSpace(s, i, n) ==
  IF n = 0 THEN i
  ELSE LET e == RunEnd(s, i, WordCodes)
       IN  IF e > i /\ IsSpace(Ch(s, e)) THEN WordsThenSpace(s, e + 1, n - 1)
           ELSE 0

\* a quoted run "..." of the class at position i: the position after the
\* closing quote, 0 on no match
QuotedRun(s, i, class) ==
  IF Ch(s, i) # "\"" THEN 0
  ELSE LET e == RunEnd(s, i + 1, class)
       IN  IF e > i + 1 /\ Ch(s, e) = "\"" THEN e + 1 ELSE 0

\* kPropertyAccessRegEX matched at position i.  The result is the
\* std::match_results: empty on no match; on a match one entry for the whole
\* match and one for each of the three marked groups of the expression, a
\* group that took no part in the match being an empty entry.
PropertyAccessAt(s, i) ==
  LET c  == SkipSpaces(s, i + 4)
      w  == SkipSpaces(s, c + 1)
      q  == WordsThenSpace(s, w, 4)
      e1 == QuotedRun(s, q, PropCodes)
      e3 == IF StartsAt(s, e1, " to ") THEN QuotedRun(s, e1 + 4, DestCodes) ELSE 0
  IN  IF ~(StartsAt(s, i, "libc") /\ c > i + 4 /\ Ch(s, c) = ":" /\ w > c + 1)
      THEN << >>
      ELSE IF q = 0 \/ e1 = 0 THEN << >>
      ELSE IF e3 = 0
           THEN << SubSeq(s, i, e1 - 1), SubSeq(s, q, e1 - 1), "", "" >>
           ELSE << SubSeq(s, i, e3 - 1), SubSeq(s, q, e1 - 1),
                   SubSeq(s, e1, e3 - 1), SubSeq(s, e1 + 5, e3 - 2) >>

\* std::regex_search(line, kPropMatch, kPropertyAccessRegEX): the leftmost match
PropertyAccessSearch(line) ==
  LET hits == { i \in 1..Len(line) : PropertyAccessAt(line, i) # << >> }
  IN  IF hits = {} THEN << >>
      ELSE PropertyAccessAt(line, CHOOSE i \in hits : \A k \in hits : i <= k)

\* std::match_results::str(n): the n-th entry, empty when there is none
Str(kPropMatch, n) == IF n + 1 <= Len(kPropMatch) THEN kPropMatch[n + 1] ELSE ""

\* FilterLibc::filter, with the static propsDenied passed in (denied) and
\* returned
FilterLibcFilter(line, denied) ==
  LET kPropMatch == lineFacts[line].match
  IN  IF kPropMatch = << >> THEN [ret |-> FALSE, propsDenied |-> denied]
      ELSE IF Len(kPropMatch) = 3 THEN [ret |-> TRUE, propsDenied |-> denied]
      ELSE IF Len(kPropMatch) = 1
           THEN IF Str(kPropMatch, 1) \in denied
                THEN [ret |-> FALSE, propsDenied |-> denied]
                ELSE [ret |-> TRUE,
                      propsDenied |-> denied \cup {Str(kPropMatch, 1)}]
      ELSE [ret |-> FALSE, propsDenied |-> denied]

(***************************************************************************)
(* Logger.cpp: start<Logger, Filters...> and main                          *)
(*                                                                         *)
(* The two workers are named by Logger::NAME.  A file of the log directory *)
(* is named by its path with the time stamp left out; dir maps the paths   *)
(* of the files that exist to their text.                                  *)
(***************************************************************************)

\* bounds of the model
MaxReads == 2

\* Logger::NAME of Dmesg and Logcat
Loggers == {"dmesg", "logcat"}

\* Filter::NAME of FilterAvc, FilterAvcGen, FilterLibc, in template order
FilterNames == << "avc", "sepolicy.gen", "libc_properties" >>

\* the lines the worker's source can deliver
SourceLines(w) ==
  IF w = "dmesg" THEN KmsgLines \cup {LongLine} ELSE LogcatLines

mainVars == << mpc, env, has_audit, run, threads, joined, status, idleVars >>

\* logPath and the derived files' paths, without the time stamp
LogPath(w) == w \o ".log"

FilterPath(w, f) == w \o "." \o f \o ".log"

\* Every worker running start<Logger, FilterAvc, FilterAvcGen, FilterLibc>;
\* the program does not do this.
AttachedAll(w) == {"avc", "sepolicy.gen", "libc_properties"}

\* the filters of the start<> instantiation the worker runs
Attached(w) ==
  IF w = "logcat" THEN {"avc", "sepolicy.gen", "libc_properties"}
  ELSE IF has_audit THEN {"avc", "sepolicy.gen"}
  ELSE {}

\* AvcContext(l), FilterAvc::filter(l) and the std::match_results of the
\* search with kPropertyAccessRegEX, for every line l of the model
LineFacts ==
  [l \in ModelLines |->
     [ctor |-> AvcContextCtor(l), avc |-> FilterAvcFilter(l),
      match |-> PropertyAccessSearch(l)]]

\* FilterType::write of the filter named f, on a set that is not empty
WriteText(f, results) ==
  IF f = "sepolicy.gen" THEN FilterAvcGenText(results) ELSE FilterText(results)

\* WriteText for every filter and every set of lines a worker can hold that
\* is not empty
TextFacts ==
  [q \in {FilterNames[k] : k \in 1..Len(FilterNames)}
           \X ((SUBSET KmsgLines \cup SUBSET LogcatLines) \ {{}})
     |-> WriteText(q[1], q[2])]

NoCrash == [line |-> "", fault |-> "none"]

NoCall == [fn |-> "none"]

\* nothing read yet: an empty KernelConfigType gives UNKNOWN for a key, and a
\* property that is not set reads as ""
NoEnv == [ReadKernelConfig |-> 0, CONFIG_AUDIT |-> "UNKNOWN", logd_kernel |-> ""]

\* what ReadKernelConfig can return, 0 on success, with what kConfig then
\* holds for CONFIG_AUDIT: read and built in, read and not set, and a read
\* that failed on a configuration that has it built in
ConfigReads ==
  { [ret |-> 0, value |-> "BUILT_IN"], [ret |-> 0, value |-> "UNSET"],
    [ret |-> 1, value |-> "BUILT_IN"] }

\* what the property ro.logd.kernel can hold
PropertyValues == {"", "true", "0"}

\* android::base::GetBoolProperty on the value of the property
GetBoolProperty(value, default_value) ==
  IF value \in {"1", "y", "yes", "on", "true"} THEN TRUE
  ELSE IF value \in {"0", "n", "no", "off", "false"} THEN FALSE
  ELSE default_value

NoResults == [f \in {FilterNames[k] : k \in 1..Len(FilterNames)} |-> {}]

Init ==
  /\ mpc = "setup"
  /\ env = NoEnv
  /\ has_audit = FALSE
  /\ run \in BOOLEAN
  /\ threads = << >>
  /\ joined = 0
  /\ proc = "running"
  /\ status = -1
  /\ crash = NoCrash
  /\ wpc = [w \in Loggers |-> "idle"]
  /\ fp = [w \in Loggers |-> "null"]
  /\ logFile = [w \in Loggers |-> FALSE]
  /\ reads = [w \in Loggers |-> 0]
  /\ filters = [w \in Loggers |-> NoResults]
  /\ propsDenied = {}
  /\ dir = NoAttributes
  /\ logged = {}
  /\ arrived = [w \in Loggers |-> << >>]
  /\ afterFlip = [w \in Loggers |-> 0]
  /\ pending = [w \in Loggers |-> ""]
  /\ delivered = [w \in Loggers |-> << >>]
  /\ accessed = {}
  /\ lineFacts = LineFacts
  /\ textFacts = TextFacts
  /\ lineSet = {}
  /\ call = NoCall
  /\ out = ""
  /\ history = << >>

readVars == << arrived, afterFlip, pending, delivered >>

histVars == << readVars, accessed >>

workerVars == << wpc, fp, logFile, reads, filters, propsDenied, dir, crash,
                logged, histVars >>

(***************************************************************************)
(* main                                                                    *)
(***************************************************************************)

\* main up to "run = true": the arguments and the log directory are checked
\* (EXIT_FAILURE when one is bad) and the kernel configuration is read.
M_Setup ==
  /\ proc = "running" /\ mpc = "setup"
  /\ \E ok \in BOOLEAN, kConfig \in ConfigReads :
       IF ok
       THEN /\ env' = [env EXCEPT !.ReadKernelConfig = kConfig.ret,
                                  !.CONFIG_AUDIT = kConfig.value]
            /\ has_audit' = (kConfig.ret = 0 /\ kConfig.value = "BUILT_IN")
            /\ run' = TRUE
            /\ mpc' = "start_kernel"
            /\ UNCHANGED << proc, status >>
       ELSE /\ proc' = "exited"
            /\ status' = 1
            /\ UNCHANGED << env, has_audit, run, mpc >>
  /\ UNCHANGED << threads, joined, workerVars, idleVars >>

\* A main that starts the kernel worker whatever the property holds; the
\* program does not do this.
M_StartKernelAlways ==
  /\ proc = "running" /\ mpc = "start_kernel"
  /\ \E value \in PropertyValues :
       /\ env' = [env EXCEPT !.logd_kernel = value]
       /\ threads' = Append(threads, "dmesg")
       /\ wpc' = [wpc EXCEPT !["dmesg"] = "open"]
  /\ mpc' = "start_logcat"
  /\ UNCHANGED << has_audit, run, joined, proc, status, crash, fp, logFile,
                  reads, filters, propsDenied, dir, logged, histVars, idleVars >>

\* if (!GetBoolProperty("ro.logd.kernel", false)) threads.emplace_back(...)
M_StartKernel ==
  /\ proc = "running" /\ mpc = "start_kernel"
  /\ \E value \in PropertyValues :
       /\ env' = [env EXCEPT !.logd_kernel = value]
       /\ IF ~GetBoolProperty(value, FALSE)
          THEN /\ threads' = Append(threads, "dmesg")
               /\ wpc' = [wpc EXCEPT !["dmesg"] = "open"]
          ELSE UNCHANGED << threads, wpc >>
  /\ mpc' = "start_logcat"
  /\ UNCHANGED << has_audit, run, joined, proc, status, crash, fp, logFile,
                  reads, filters, propsDenied, dir, logged, histVars, idleVars >>

\* threads.emplace_back([&] { start<Logcat, ...>(kLogDir, &run); })
M_StartLogcat ==
  /\ proc = "running" /\ mpc = "start_logcat"
  /\ threads' = Append(threads, "logcat")
  /\ wpc' = [wpc EXCEPT !["logcat"] = "open"]
  /\ mpc' = "wait"
  /\ UNCHANGED << env, has_audit, run, joined, proc, status, crash, fp, logFile,
                  reads, filters, propsDenied, dir, logged, histVars, idleVars >>

\* WaitForProperty returns
M_WaitReturn ==
  /\ proc = "running" /\ mpc = "wait"
  /\ mpc' = "flip"
  /\ UNCHANGED << env, has_audit, run, threads, joined, proc, status, workerVars, idleVars >>

\* A main that goes on to the joins without writing run; the program does
\* not do this.
M_FlipNot ==
  /\ proc = "running" /\ mpc = "flip"
  /\ mpc' = "join"
  /\ UNCHANGED << env, has_audit, run, threads, joined, proc, status, workerVars, idleVars >>

\* run = false
M_Flip ==
  /\ proc = "running" /\ mpc = "flip"
  /\ run' = FALSE
  /\ mpc' = "join"
  /\ UNCHANGED << env, has_audit, threads, joined, proc, status, workerVars, idleVars >>

\* A join loop that does not wait for the thread's function to return; the
\* program does not do this.
M_JoinNoWait ==
  /\ proc = "running" /\ mpc = "join"
  /\ joined < Len(threads)
  /\ joined' = joined + 1
  /\ UNCHANGED << mpc, env, has_audit, run, threads, proc, status, workerVars, idleVars >>

\* for (auto &i : threads) i.join(): one join returns, the thread's function
\* having returned
M_Join ==
  /\ proc = "running" /\ mpc = "join"
  /\ joined < Len(threads)
  /\ wpc[threads[joined + 1]] = "closed"
  /\ joined' = joined + 1
  /\ UNCHANGED << mpc, env, has_audit, run, threads, proc, status, workerVars, idleVars >>

\* return 0
M_Return ==
  /\ proc = "running" /\ mpc = "join"
  /\ joined = Len(threads)
  /\ mpc' = "done"
  /\ proc' = "exited"
  /\ status' = 0
  /\ UNCHANGED << env, has_audit, run, threads, joined, workerVars, idleVars >>

(***************************************************************************)
(* start                                                                   *)
(***************************************************************************)

\* an object of one call of start: buf, _fp, logFile, filters
Local(w, name) == "start<" \o w \o ">::" \o name

\* what the source reads from: Dmesg::FILEC, or the logcat process it forks
SourceOf(w) == IF w = "dmesg" THEN "/proc/kmsg" ELSE "logcat"

\* the function-local statics of the filter functions the worker calls
FilterStatics(w) ==
  (IF "avc" \in Attached(w) THEN {"kAvcMessageRegEX"} ELSE {})
    \cup (IF "sepolicy.gen" \in Attached(w) THEN {"kSEContextRegex"} ELSE {})
    \cup (IF "libc_properties" \in Attached(w)
          THEN {"kPropertyAccessRegEX", "propsDenied"} ELSE {})

\* the objects a part of start can access: its locals, run, the statics of
\* its filters, the source, main's kLogDir and the files it names
Uses(w, part) ==
  CASE part = "open" -> {Local(w, "buf"), Local(w, "_fp"), SourceOf(w)}
    [] part = "openlog" ->
         {"kLogDir", Local(w, "logFile"), LogPath(w), Local(w, "_fp"), SourceOf(w)}
    [] part = "loop" -> {"run"}
    [] part = "fgets" ->
         {Local(w, "buf"), Local(w, "_fp"), SourceOf(w), Local(w, "filters"),
          Local(w, "logFile"), LogPath(w)} \cup FilterStatics(w)
    [] part = "release" ->
         {Local(w, "_fp"), SourceOf(w), Local(w, "logFile"), LogPath(w)}
    [] part = "size" -> {LogPath(w)}
    [] part = "write" ->
         {"kLogDir", Local(w, "filters")}
           \cup { FilterPath(w, f) : f \in { g \in Attached(w) : filters[w][g] # {} } }
           \cup (IF "sepolicy.gen" \in Attached(w) THEN {"kSEContextRegex"} ELSE {})

\* the worker's step is recorded
Touch(w, objects) == accessed' = accessed \cup { << w, o >> : o \in objects }

\* A start that reports the null handle and goes on to open the capture
\* file; the program does not do this.
W_OpenSourceGoesOn(w) ==
  /\ proc = "running" /\ wpc[w] = "open"
  /\ Touch(w, Uses(w, "open"))
  /\ \E opened \in BOOLEAN :
       IF opened
       THEN /\ fp' = [fp EXCEPT ![w] = "open"]
            /\ UNCHANGED logged
       ELSE /\ logged' = logged \cup {<< w, "Failed to open source" >>}
            /\ UNCHANGED fp
  /\ wpc' = [wpc EXCEPT ![w] = "openlog"]
  /\ UNCHANGED << mainVars, readVars, proc, crash, logFile, reads, filters, propsDenied, dir >>

\* Logger::open() and the test of _fp: on a null handle start returns.
W_OpenSource(w) ==
  /\ proc = "running" /\ wpc[w] = "open"
  /\ Touch(w, Uses(w, "open"))
  /\ \E opened \in BOOLEAN :
       IF opened
       THEN /\ fp' = [fp EXCEPT ![w] = "open"]
            /\ wpc' = [wpc EXCEPT ![w] = "openlog"]
            /\ UNCHANGED logged
       ELSE /\ wpc' = [wpc EXCEPT ![w] = "closed"]
            /\ logged' = logged \cup {<< w, "Failed to open source" >>}
            /\ UNCHANGED fp
  /\ UNCHANGED << mainVars, readVars, proc, crash, logFile, reads, filters, propsDenied, dir >>

\* A start that returns on a capture file it cannot open and leaves the
\* source as it is; the program does not do this.
W_OpenLogLeaks(w) ==
  /\ proc = "running" /\ wpc[w] = "openlog"
  /\ Touch(w, Uses(w, "openlog"))
  /\ \E opened \in BOOLEAN :
       IF opened
       THEN /\ logFile' = [logFile EXCEPT ![w] = TRUE]
            /\ dir' = (LogPath(w) :> "") @@ dir
            /\ wpc' = [wpc EXCEPT ![w] = "loop"]
            /\ UNCHANGED << fp, logged >>
       ELSE /\ UNCHANGED fp
            /\ wpc' = [wpc EXCEPT ![w] = "closed"]
            /\ logged' = logged \cup {<< w, "Failed to open logfile" >>}
            /\ UNCHANGED << logFile, dir >>
  /\ UNCHANGED << mainVars, readVars, proc, crash, reads, filters, propsDenied >>

\* std::ofstream logFile(logPath) and the test of is_open: an opened stream
\* has created the file, empty; on a failure start returns and _fp's
\* destructor releases the source.
W_OpenLog(w) ==
  /\ proc = "running" /\ wpc[w] = "openlog"
  /\ Touch(w, Uses(w, "openlog"))
  /\ \E opened \in BOOLEAN :
       IF opened
       THEN /\ logFile' = [logFile EXCEPT ![w] = TRUE]
            /\ dir' = (LogPath(w) :> "") @@ dir
            /\ wpc' = [wpc EXCEPT ![w] = "loop"]
            /\ UNCHANGED << fp, logged >>
       ELSE /\ fp' = [fp EXCEPT ![w] = "released"]
            /\ wpc' = [wpc EXCEPT ![w] = "closed"]
            /\ logged' = logged \cup {<< w, "Failed to open logfile" >>}
            /\ UNCHANGED << logFile, dir >>
  /\ UNCHANGED << mainVars, readVars, proc, crash, reads, filters, propsDenied >>

\* A loop that does not test run; the program does not do this.
W_CheckRunAlways(w) ==
  /\ proc = "running" /\ wpc[w] = "loop"
  /\ Touch(w, Uses(w, "loop"))
  /\ wpc' = [wpc EXCEPT ![w] = "fgets"]
  /\ UNCHANGED << mainVars, readVars, proc, crash, fp, logFile, reads, filters,
                  propsDenied, dir, logged >>

\* while (*run)
W_CheckRun(w) ==
  /\ proc = "running" /\ wpc[w] = "loop"
  /\ Touch(w, Uses(w, "loop"))
  /\ wpc' = [wpc EXCEPT ![w] = IF run THEN "fgets" ELSE "release"]
  /\ UNCHANGED << mainVars, readVars, proc, crash, fp, logFile, reads, filters,
                  propsDenied, dir, logged >>

\* Logger::fgets returns nullptr: continue
W_FgetsNull(w) ==
  /\ proc = "running" /\ wpc[w] = "fgets"
  /\ Touch(w, {Local(w, "buf"), Local(w, "_fp"), SourceOf(w)})
  /\ wpc' = [wpc EXCEPT ![w] = "loop"]
  /\ afterFlip' = [afterFlip EXCEPT ![w] = IF run THEN @ ELSE @ + 1]
  /\ UNCHANGED << mainVars, arrived, pending, delivered, proc, crash, fp, logFile, reads, filters,
                  propsDenied, dir, logged >>

\* how a call that ends with the fault can go on: std::out_of_range leaves
\* the thread's function, which terminates the process; past the end of the
\* token vector the read may fault, or yield a token that fails the parse.
Aborts(fault) ==
  IF fault = "out_of_range" THEN {TRUE}
  ELSE IF fault = "ub" THEN {TRUE, FALSE}
  ELSE {FALSE}

\* The fold over the filters for one line, in template order: each attached
\* filter's filter(line), and the insert on true.  abort: whether the call of
\* FilterAvcGen::filter ends the process.
ApplyFilters(attached, line, sets, props, abort) ==
  LET s1 == IF "avc" \in attached /\ lineFacts[line].avc
            THEN [sets EXCEPT !["avc"] = @ \cup {line}] ELSE sets
      g  == FilterAvcGenFilter(line)
      s2 == IF "sepolicy.gen" \in attached /\ g.fault = "none" /\ g.ret
            THEN [s1 EXCEPT !["sepolicy.gen"] = @ \cup {line}] ELSE s1
      l  == FilterLibcFilter(line, props)
      s3 == IF "libc_properties" \in attached /\ l.ret
            THEN [s2 EXCEPT !["libc_properties"] = @ \cup {line}] ELSE s2
  IN  IF abort THEN [sets |-> s1, props |-> props]
      ELSE [sets |-> s3,
            props |-> IF "libc_properties" \in attached THEN l.propsDenied
                      ELSE props]

\* what the worker's stream holds up to the next line feed: the rest of the
\* line fgets has returned a part of, or else a line the source delivers
Readable(w) ==
  IF pending[w] # "" THEN {pending[w]}
  ELSE { l \o "\n" : l \in SourceLines(w) }

\* Logger::fgets returns a chunk, of which getline yields one line: the
\* filters are applied to it and it is appended to logFile.
W_FgetsLine(w) ==
  /\ proc = "running" /\ wpc[w] = "fgets"
  /\ reads[w] < MaxReads
  /\ Touch(w, Uses(w, "fgets"))
  /\ \E data \in Readable(w) :
       LET line  == Getline(Fgets(data).chunk)
           fault == IF "sepolicy.gen" \in Attached(w)
                    THEN FilterAvcGenFilter(line).fault ELSE "none"
       IN  \E abort \in Aborts(fault) :
             LET r == ApplyFilters(Attached(w), line, filters[w], propsDenied, abort)
             IN  /\ filters' = [filters EXCEPT ![w] = r.sets]
                 /\ propsDenied' = r.props
                 /\ reads' = [reads EXCEPT ![w] = @ + 1]
                 /\ arrived' = [arrived EXCEPT ![w] = Append(@, line)]
                 /\ pending' = [pending EXCEPT ![w] = Fgets(data).rest]
                 /\ delivered' = [delivered EXCEPT ![w] =
                                    IF pending[w] = "" THEN Append(@, Getline(data))
                                    ELSE @]
                 /\ afterFlip' = [afterFlip EXCEPT ![w] = IF run THEN @ ELSE @ + 1]
                 /\ IF abort
                    THEN /\ proc' = "aborted"
                         /\ crash' = [line |-> line, fault |-> fault]
                         /\ UNCHANGED << dir, wpc >>
                    ELSE /\ dir' = [dir EXCEPT ![LogPath(w)] = @ \o line \o "\n"]
                         /\ wpc' = [wpc EXCEPT ![w] = "loop"]
                         /\ UNCHANGED << proc, crash >>
  /\ UNCHANGED << mainVars, fp, logFile, logged >>

\* _fp.reset(); logFile.close();
W_Release(w) ==
  /\ proc = "running" /\ wpc[w] = "release"
  /\ Touch(w, Uses(w, "release"))
  /\ fp' = [fp EXCEPT ![w] = "released"]
  /\ logFile' = [logFile EXCEPT ![w] = FALSE]
  /\ wpc' = [wpc EXCEPT ![w] = "size"]
  /\ UNCHANGED << mainVars, readVars, proc, crash, reads, filters, propsDenied, dir,
                  logged >>

\* A start that returns on an empty capture file without removing it; the
\* program does not do this.
W_FileSizeKeeps(w) ==
  /\ proc = "running" /\ wpc[w] = "size"
  /\ Touch(w, Uses(w, "size"))
  /\ IF Len(dir[LogPath(w)]) = 0
     THEN /\ logged' = logged \cup {<< w, "No log entries found" >>}
          /\ wpc' = [wpc EXCEPT ![w] = "closed"]
     ELSE /\ wpc' = [wpc EXCEPT ![w] = "write"]
          /\ UNCHANGED logged
  /\ UNCHANGED << mainVars, readVars, proc, crash, fp, logFile, reads, filters, propsDenied,
                  dir >>

\* if (file_size(logPath, ec) == 0) { remove(logPath, ec); return; }
W_FileSize(w) ==
  /\ proc = "running" /\ wpc[w] = "size"
  /\ Touch(w, Uses(w, "size"))
  /\ IF Len(dir[LogPath(w)]) = 0
     THEN /\ dir' = Erase(dir, LogPath(w))
          /\ logged' = logged \cup {<< w, "No log entries found" >>}
          /\ wpc' = [wpc EXCEPT ![w] = "closed"]
     ELSE /\ wpc' = [wpc EXCEPT ![w] = "write"]
          /\ UNCHANGED << dir, logged >>
  /\ UNCHANGED << mainVars, readVars, proc, crash, fp, logFile, reads, filters, propsDenied >>

\* A write step that writes a file for every attached filter, an empty one
\* for an empty set; the program does not do this.
WrittenEvenEmpty(w, sets, attached, unopened) ==
  [path \in { FilterPath(w, f) : f \in attached \ unopened } |->
     LET f == CHOOSE g \in attached : FilterPath(w, g) = path
     IN  IF sets[f] = {} THEN "" ELSE textFacts[<< f, sets[f] >>]]

\* the files the last std::apply of start writes: one for every attached
\* filter whose set is not empty and whose file could be opened
Written(w, sets, attached, unopened) ==
  LET fs == { f \in attached \ unopened : sets[f] # {} }
  IN  [path \in { FilterPath(w, f) : f \in fs } |->
         LET f == CHOOSE g \in fs : FilterPath(w, g) = path
         IN  textFacts[<< f, sets[f] >>]]

\* the last std::apply of start, and the return
W_WriteFilters(w) ==
  /\ proc = "running" /\ wpc[w] = "write"
  /\ Touch(w, Uses(w, "write"))
  /\ \E unopened \in SUBSET { f \in Attached(w) : filters[w][f] # {} } :
       /\ dir' = Written(w, filters[w], Attached(w), unopened) @@ dir
       /\ logged' = logged \cup
                      { << w, "Failed to write " \o f >> : f \in unopened }
  /\ wpc' = [wpc EXCEPT ![w] = "closed"]
  /\ UNCHANGED << mainVars, readVars, proc, crash, fp, logFile, reads, filters, propsDenied >>

MainStep ==
  \/ M_Setup
  \/ M_StartKernel
  \/ M_StartLogcat
  \/ M_WaitReturn
  \/ M_Flip
  \/ M_Join
  \/ M_Return

\* the steps of a worker that need nothing from its source
WorkerStep(w) ==
  \/ W_OpenSource(w)
  \/ W_OpenLog(w)
  \/ W_CheckRun(w)
  \/ W_Release(w)
  \/ W_FileSize(w)
  \/ W_WriteFilters(w)

\* the steps of a worker that the source decides
SourceStep(w) ==
  \/ W_FgetsNull(w)
  \/ W_FgetsLine(w)

Next ==
  \/ MainStep
  \/ \E w \in Loggers : WorkerStep(w)
  \/ \E w \in Loggers : SourceStep(w)

Spec == Init /\ [][Next]_vars

\* The threads are scheduled: a step of main or of a worker that can be
\* taken is taken.  Nothing makes a source deliver.
FairSpec ==
  /\ Spec
  /\ WF_vars(MainStep)
  /\ \A w \in Loggers : WF_vars(WorkerStep(w))


(***************************************************************************)
(* FilterAvcGen taken alone: filter on the lines of a std::set, then write *)
(***************************************************************************)

\* how many lines the std::set is let to hold
MaxResults == 3

pipelineVars == << mpc, env, has_audit, run, threads, joined, status, wpc, fp,
                   logFile, reads, filters, dir, logged, arrived, afterFlip, pending, delivered, accessed,
                   lineFacts, textFacts >>

\* if (filter.first.filter(line)) filter.second.insert(line), for FilterAvcGen
FilterAvcGen_filter(line) ==
  /\ proc = "running" /\ call.fn # "write"
  /\ Cardinality(lineSet) < MaxResults
  /\ LET g == FilterAvcGenFilter(line)
     IN  \E abort \in Aborts(g.fault) :
           /\ call' = [fn |-> "filter", line |-> line,
                       fault |-> IF abort THEN g.fault ELSE "none",
                       ret |-> ~abort /\ g.fault = "none" /\ g.ret]
           /\ lineSet' = IF ~abort /\ g.fault = "none" /\ g.ret
                         THEN lineSet \cup {line} ELSE lineSet
           /\ proc' = IF abort THEN "aborted" ELSE proc
           /\ crash' = IF abort THEN [line |-> line, fault |-> g.fault]
                       ELSE crash
  /\ UNCHANGED << pipelineVars, propsDenied, out, history >>

\* FilterAvcGen::write(file, results)
FilterAvcGen_write ==
  /\ proc = "running" /\ call.fn # "write"
  /\ \E opened \in BOOLEAN :
       /\ call' = [fn |-> "write", ret |-> lineSet = {} \/ opened,
                   created |-> lineSet # {} /\ opened]
       /\ out' = IF lineSet # {} /\ opened THEN FilterAvcGenText(lineSet)
                 ELSE out
  /\ UNCHANGED << pipelineVars, propsDenied, proc, crash, lineSet, history >>

AvcNext ==
  \/ \E line \in AuditLines : FilterAvcGen_filter(line)
  \/ FilterAvcGen_write

AvcSpec == Init /\ [][AvcNext]_vars

(***************************************************************************)
(* FilterLibc taken alone: a sequence of calls of filter in one process    *)
(***************************************************************************)

\* how many calls of FilterLibc::filter a behaviour makes
MaxCalls == 3

\* if (filter.first.filter(line)) filter.second.insert(line), for FilterLibc
FilterLibc_filter(line) ==
  /\ call.fn \in {"none", "filter"}
  /\ Len(history) + 1 < MaxCalls \/ call.fn = "none"
  /\ LET r == FilterLibcFilter(line, propsDenied)
     IN  /\ call' = [fn |-> "filter", line |-> line, ret |-> r.ret,
                     seen |-> propsDenied]
         /\ propsDenied' = r.propsDenied
         /\ lineSet' = IF r.ret THEN lineSet \cup {line} ELSE lineSet
  /\ history' = IF call.fn = "none" THEN << >> ELSE Append(history, call.line)
  /\ UNCHANGED << pipelineVars, proc, crash, out >>

LibcNext == \E line \in LibcLines : FilterLibc_filter(line)

LibcSpec == Init /\ [][LibcNext]_vars


(***************************************************************************)
(* Properties of the pipeline (Spec, FairSpec)                             *)
(***************************************************************************)

\* the workers main has started
Started == { threads[k] : k \in 1..Len(threads) }

\* the files a worker can leave in the log directory
Artifacts(w) ==
  {LogPath(w)} \cup { FilterPath(w, FilterNames[k]) : k \in 1..Len(FilterNames) }

OpenFailed(w) ==
  \/ << w, "Failed to open source" >> \in logged
  \/ << w, "Failed to open logfile" >> \in logged

\* C1: a line without "avc:" ends nothing: whenever the process was ended by
\* a line a worker read, that line holds "avc:".
C1_LineWithoutAvcEndsNothing ==
  proc = "aborted" => Find(crash.line, "avc:") # 0

\* C2: once main has set the flag (run = false), every started worker is
\* eventually closed and main returns, whatever the sources deliver.  (A
\* process that a line has ended is left out: that is C1.  So is a worker
\* that has read MaxReads lines: what is shown is a worker whose source
\* could deliver and does not.)
C2_FlipClosesEveryWorker ==
  (mpc = "join") ~>
     \/ proc = "aborted"
     \/ proc = "exited" /\ \A w \in Started : wpc[w] = "closed"
     \/ \E w \in Started : reads[w] = MaxReads

\* C3: run is false only once the wait has returned, and main has returned
\* only when every worker it started is closed: no worker is reading or
\* writing in a process that has exited.
C3_FlipAfterWaitExitAfterClosed ==
  /\ mpc \in {"start_kernel", "start_logcat", "wait", "flip"} => run
  /\ proc = "exited" => \A w \in Started : wpc[w] = "closed"
  /\ \A w \in Loggers \ Started : wpc[w] = "idle"

\* main has returned 0 with both workers started and closed, a worker having
\* read lines and written a derived file
C3_Witness ==
  /\ proc = "exited" /\ status = 0 /\ Started = Loggers
  /\ \E w \in Loggers :
       /\ reads[w] > 0
       /\ \E k \in 1..Len(FilterNames) :
            FilterPath(w, FilterNames[k]) \in DOMAIN dir

\* the worker whose open failed is closed and has left no file, and a main
\* that has returned after starting its workers has joined them all and
\* returned 0
C4_FailedWorkerLeavesNothing ==
  /\ \A w \in Loggers :
       OpenFailed(w) =>
         /\ wpc[w] = "closed"
         /\ Artifacts(w) \cap DOMAIN dir = {}
  /\ proc = "exited" /\ threads # << >> =>
       status = 0 /\ joined = Len(threads)

\* the step in which a worker's open fails changes nothing of the other
\* worker, of its files, of main or of the process
C4_FailureTouchesNoSibling ==
  \A w \in Loggers :
    ~OpenFailed(w) /\ OpenFailed(w)' =>
      /\ \A v \in Loggers \ {w} :
           /\ UNCHANGED << wpc[v], fp[v], logFile[v], reads[v], filters[v] >>
           /\ \A path \in Artifacts(v) :
                /\ (path \in DOMAIN dir) = (path \in DOMAIN dir')
                /\ path \in DOMAIN dir => dir'[path] = dir[path]
      /\ UNCHANGED << mpc, run, threads, joined, proc, status, crash >>

\* C4: a worker whose source or capture file fails to open closes at once
\* and leaves no file; the failure changes nothing of the other worker, and
\* main still joins every worker and returns 0.
C4_OpenFailureIsLocal ==
  /\ []C4_FailedWorkerLeavesNothing
  /\ [][C4_FailureTouchesNoSibling]_vars

\* one worker's open has failed, the other has read lines and written its
\* capture file and a derived file, and main has returned 0
C4_Witness ==
  /\ proc = "exited" /\ status = 0
  /\ \E w \in Loggers, v \in Loggers :
       /\ w # v /\ OpenFailed(w) /\ ~OpenFailed(v)
       /\ wpc[v] = "closed" /\ reads[v] > 0
       /\ LogPath(v) \in DOMAIN dir
       /\ \E k \in 1..Len(FilterNames) :
            FilterPath(v, FilterNames[k]) \in DOMAIN dir

\* C9: a closed worker whose source was opened (and so released) and that
\* read no line has left neither its capture file nor a derived file.
C9_EmptyCaptureLeavesNoFile ==
  \A w \in Loggers :
    wpc[w] = "closed" /\ fp[w] = "released" /\ reads[w] = 0 =>
      Artifacts(w) \cap DOMAIN dir = {}

\* a worker opened its source and its capture file, read nothing, found the
\* file empty and closed; main has returned
C9_Witness ==
  /\ proc = "exited"
  /\ \E w \in Loggers :
       /\ wpc[w] = "closed" /\ fp[w] = "released" /\ reads[w] = 0
       /\ << w, "No log entries found" >> \in logged


(***************************************************************************)
(* Properties of FilterAvcGen taken alone (AvcSpec)                        *)
(***************************************************************************)

\* the lines of a text, each line ended by a line feed
RECURSIVE SplitLines(_)
SplitLines(text) ==
  IF text = "" THEN << >>
  ELSE LET n == Find(text, "\n")
       IN  IF n = 0 THEN << text >>
           ELSE << SubSeq(text, 1, n - 1) >>
                  \o SplitLines(SubSeq(text, n + 1, Len(text)))

\* write has put the rules of lineSet into the file
Wrote == call.fn = "write" /\ call.created

\* the key by which operator+= takes two records to be the same rule
KeyOf(context) ==
  << context.granted, context.scontext, context.tcontext, context.tclass >>

\* the records that are left to format after the merge
Surviving(contexts) ==
  { k \in 1..Len(contexts) : ~contexts[k].stale }

\* after the merge every key of a parsed record has one surviving record, and
\* that record holds the operations of all the records of the key
OneSurvivorPerKey ==
  LET parsed == Translate(lineSet)
      merged == Combine(parsed)
  IN  \A k \in Surviving(parsed) :
        LET same == { i \in Surviving(parsed) : KeyOf(parsed[i]) = KeyOf(parsed[k]) }
            left == { j \in Surviving(merged) : KeyOf(merged[j]) = KeyOf(parsed[k]) }
        IN  /\ Cardinality(left) = 1
            /\ \A j \in left :
                 merged[j].operation = UNION { parsed[i].operation : i \in same }

\* the text written is the same in whatever order the records are merged
\* and formatted
RenderOrderFree ==
  LET parsed == Translate(lineSet)
  IN  \A p \in Permutations(1..Len(parsed)) :
        FormatAvcContexts(Combine([k \in 1..Len(parsed) |-> parsed[p[k]]])) \o "\n"
          = out

C6_SysAdminNeverWritten ==
  Wrote =>
    LET merged == Combine(Translate(lineSet))
        rules  == SplitLines(out)
    IN  \A j \in Surviving(merged) :
          "sys_admin" \in merged[j].operation =>
            \A k \in 1..Len(rules) : rules[k] # FormatAvcContext(merged[j])

\* C7: the lines of the file write has written are in strictly ascending
\* order, so no rule is written twice.
C7_RulesSortedNoDuplicate ==
  Wrote =>
    LET rules == SplitLines(out)
    IN  \A i \in 1..Len(rules), j \in 1..Len(rules) :
          i < j => StrLess(rules[i], rules[j])

\* the tokens of the line from "avc:" on
AvcTokens(line) == Tokens(SubSeq(line, Find(line, "avc:"), Len(line)))

\* the position of the first "}" among the tokens, 0 when there is none
ClosingBrace(t) ==
  IF \E k \in 1..Len(t) : t[k] = "}"
  THEN CHOOSE k \in 1..Len(t) : t[k] = "}" /\ \A j \in 1..(k - 1) : t[j] # "}"
  ELSE 0

\* avc:, granted or denied, "{", one operation or more, "}", for
WellFormedHead(line) ==
  /\ Find(line, "avc:") # 0
  /\ LET t == AvcTokens(line)
         b == ClosingBrace(t)
     IN  /\ Len(t) >= 6
         /\ t[1] = "avc:" /\ t[2] \in {"granted", "denied"} /\ t[3] = "{"
         /\ b >= 5 /\ b < Len(t) /\ t[b + 1] = "for"

\* the key=value tokens that follow "for"
AttributeTokens(line) ==
  LET t == AvcTokens(line)
  IN  SelectSeq(SubSeq(t, ClosingBrace(t) + 2, Len(t)),
                LAMBDA a : Find(a, "=") # 0)

KeyOfToken(a) == SubSeq(a, 1, Find(a, "=") - 1)

ValueOfToken(a) == TrimDoubleQuote(SubSeq(a, Find(a, "=") + 1, Len(a)))

\* the value of the first token that has the key; "" when none has it
ValueOfKey(line, key) ==
  LET a == AttributeTokens(line)
      hits == { k \in 1..Len(a) : KeyOfToken(a[k]) = key }
  IN  IF hits = {} THEN ""
      ELSE ValueOfToken(a[CHOOSE k \in hits : \A j \in hits : k <= j])

HasKey(line, key) ==
  \E k \in 1..Len(AttributeTokens(line)) : KeyOfToken(AttributeTokens(line)[k]) = key

\* a decimal integer, with or without a sign, and nothing else
DecimalInteger(v) ==
  LET d == IF Ch(v, 1) \in {"+", "-"} THEN SubSeq(v, 2, Len(v)) ELSE v
  IN  Len(d) > 0 /\ \A i \in 1..Len(d) : IsDigit(Ch(d, i))

\* C10: filter on a line with a well-formed head ends without a fault, and
\* it returns true (the record is valid) exactly when scontext, tcontext,
\* tclass and permissive are present and the value of permissive is a
\* decimal integer that is 0 or 1.
C10_ValidIffKeysAndPermissive01 ==
  call.fn = "filter" /\ WellFormedHead(call.line) =>
    /\ call.fault = "none"
    /\ call.ret <=>
         /\ \A key \in {"scontext", "tcontext", "tclass", "permissive"} :
              HasKey(call.line, key)
         /\ DecimalInteger(ValueOfKey(call.line, "permissive"))
         /\ StreamExtractInt(ValueOfKey(call.line, "permissive")).x \in {0, 1}

(***************************************************************************)
(* Properties of FilterLibc taken alone (LibcSpec)                         *)
(***************************************************************************)

\* the line matches kPropertyAccessRegEX with no destination
NameOnly(line) ==
  lineFacts[line].match # << >> /\ lineFacts[line].match[3] = ""

\* the line matches kPropertyAccessRegEX with a destination
WithDestination(line) ==
  lineFacts[line].match # << >> /\ lineFacts[line].match[3] # ""

\* the quoted property name of a line that matches
PropertyName(line) == lineFacts[line].match[2]

\* C8: filter returns true for a line with only a property name exactly
\* when no earlier line of the process had that name and no destination,
\* true for every line with a destination, and the set of the names seen
\* does not shrink.
C8_FirstSightingOnly ==
  call.fn = "filter" =>
    /\ NameOnly(call.line) =>
         (call.ret <=>
            \A k \in 1..Len(history) :
              ~(NameOnly(history[k])
                  /\ PropertyName(history[k]) = PropertyName(call.line)))
    /\ WithDestination(call.line) => call.ret
    /\ call.seen \subseteq propsDenied


(***************************************************************************)
(* Properties of the rendering (AvcSpec)                                   *)
(***************************************************************************)

\* the type a context of the form u:r:TYPE:s0 or u:object_r:TYPE:s0 names
TypeNamedBy(raw, type) ==
  raw \in {"u:r:" \o type \o ":s0", "u:object_r:" \o type \o ":s0"}

\* rule is the allow rule of the record context, parsed from line: the
\* words "allow", the source type, target type ":" class, and then the one
\* operation, or the operations between braces in ascending order
IsRuleOf(rule, context, line) ==
  LET t == Tokens(rule)
      n == Cardinality(context.operation)
  IN  /\ rule = Join(t, " ")
      /\ Len(t) = IF n = 1 THEN 4 ELSE n + 5
      /\ t[1] = "allow"
      /\ TypeNamedBy(ValueOfKey(line, "scontext"), t[2])
      /\ \E type \in {context.tcontext} :
           /\ TypeNamedBy(ValueOfKey(line, "tcontext"), type)
           /\ t[3] = type \o ":" \o ValueOfKey(line, "tclass")
      /\ IF n = 1
         THEN \E op \in context.operation : t[4] = op \o ";"
         ELSE /\ t[4] = "{" /\ t[n + 5] = "};"
              /\ { t[4 + i] : i \in 1..n } = context.operation
              /\ \A i \in 1..(n - 1) : StrLess(t[4 + i], t[5 + i])

ExampleLine ==
  "avc: denied { write read } for scontext=u:r:untrusted_app:s0 tcontext=u:object_r:system_file:s0 tclass=file permissive=0"

\* C11: every surviving record that has operations is written as the rule
\* "allow S T:C op;" when it has one operation and "allow S T:C { ops };"
\* with the operations ascending otherwise, S and T being the types of
\* scontext and tcontext; the record of ExampleLine alone is written as
\* "allow untrusted_app system_file:file { read write };".
C11_RuleFormat ==
  Wrote =>
    LET ordered == SetOrder(lineSet)
        merged  == Combine(Translate(lineSet))
        rules   == SplitLines(out)
    IN  /\ \A j \in Surviving(merged) :
             merged[j].operation # {} =>
               \E k \in 1..Len(rules) : IsRuleOf(rules[k], merged[j], ordered[j])
        /\ lineSet = {ExampleLine} =>
             out = "allow untrusted_app system_file:file { read write };\n"

\* write has written the rule of ExampleLine alone
C11_Witness == Wrote /\ lineSet = {ExampleLine}


(***************************************************************************)
(* SEContext taken alone: the constructor on a context, and again on what  *)
(* it has made of the context                                              *)
(***************************************************************************)

\* the contexts given to the constructor: a head, a type and a tail
Contexts ==
  { head \o type \o tail :
      head \in {"u:r:", "u:object_r:", "u:", "r:", ""},
      type \in {"init", "sysfs", "vendor-init", "hal_foo_default", "a.b", ""},
      tail \in {":s0", ":s0:c512,c768", ":s1", ""} }

\* SEContext(context)
SEContext_new(context) ==
  /\ call' = [fn |-> "SEContext", context |-> context,
              m_context |-> SEContextCtor(context), again |-> FALSE]
  /\ UNCHANGED << pipelineVars, propsDenied, proc, crash, lineSet, out, history >>

\* SEContext(c), c being what the last constructor has made of its context
SEContext_again ==
  /\ call.fn = "SEContext" /\ ~call.again
  /\ call' = [fn |-> "SEContext", context |-> call.m_context,
              m_context |-> SEContextCtor(call.m_context), again |-> TRUE]
  /\ UNCHANGED << pipelineVars, propsDenied, proc, crash, lineSet, out, history >>

NormNext ==
  \/ \E context \in Contexts : SEContext_new(context)
  \/ SEContext_again

NormSpec == Init /\ [][NormNext]_vars

(***************************************************************************)
(* The merge of FilterAvcGen::write taken alone, one operator+= at a time, *)
(* and operator+= on two records as their constructor leaves them          *)
(***************************************************************************)

\* the lines of AuditLines the constructor returns for
ParsedLines == { l \in AuditLines : lineFacts[l].ctor.fault = "none" }

\* the lines of AuditLines FilterAvcGen::filter returns true for
ValidLines ==
  { l \in AuditLines : FilterAvcGenFilter(l).fault = "none" /\ FilterAvcGenFilter(l).ret }

\* FilterAvcGen::write up to the loops: results is not empty, and contexts
\* is its translation; e1 and e2 are where the two loops stand
Write_transform(results) ==
  /\ call.fn = "none"
  /\ call' = [fn |-> "merge", results |-> results,
              contexts |-> Translate(results), e1 |-> 1, e2 |-> 1]
  /\ UNCHANGED << pipelineVars, propsDenied, proc, crash, lineSet, out, history >>

\* one turn of the inner loop: continue when e1 and e2 are the same record,
\* e1 += e2 otherwise
Write_combine ==
  /\ call.fn = "merge" /\ call.e1 <= Len(call.contexts)
  /\ LET n == Len(call.contexts)
         r == PlusEq(call.contexts[call.e1], call.contexts[call.e2])
     IN  call' = [call EXCEPT
                    !.contexts = IF call.e1 = call.e2 THEN @
                                 ELSE [@ EXCEPT ![call.e1] = r.a, ![call.e2] = r.b],
                    !.e1 = IF call.e2 < n THEN @ ELSE @ + 1,
                    !.e2 = IF call.e2 < n THEN @ + 1 ELSE 1]
  /\ UNCHANGED << pipelineVars, propsDenied, proc, crash, lineSet, out, history >>

\* the loops are done: fileStream << fmt::format("{}\n", contexts)
Write_format ==
  /\ call.fn = "merge" /\ call.e1 > Len(call.contexts)
  /\ call' = [call EXCEPT !.fn = "format"]
  /\ out' = FormatAvcContexts(call.contexts) \o "\n"
  /\ UNCHANGED << pipelineVars, propsDenied, proc, crash, lineSet, history >>

\* a += b, a and b being the records of two lines
PlusEq_call(la, lb) ==
  /\ call.fn = "none"
  /\ call' = [fn |-> "operator+=",
              a |-> lineFacts[la].ctor.ctx, b |-> lineFacts[lb].ctor.ctx,
              ret |-> PlusEq(lineFacts[la].ctor.ctx, lineFacts[lb].ctor.ctx)]
  /\ UNCHANGED << pipelineVars, propsDenied, proc, crash, lineSet, out, history >>

MergeNext ==
  \/ \E results \in SUBSET ValidLines :
       /\ results # {} /\ Cardinality(results) <= MaxResults
       /\ Write_transform(results)
  \/ Write_combine
  \/ Write_format
  \/ \E la \in ParsedLines, lb \in ParsedLines : PlusEq_call(la, lb)

MergeSpec == Init /\ [][MergeNext]_vars

\* c is u:r: or u:object_r:, a type of word characters and hyphens, :s0,
\* and anything after
MatchesContextPattern(c) ==
  \E head \in {"u:r:", "u:object_r:"} :
    /\ StartsAt(c, 1, head)
    /\ \E e \in (Len(head) + 2)..(Len(c) + 1) :
         /\ \A i \in (Len(head) + 1)..(e - 1) : IsWordCh(Ch(c, i)) \/ Ch(c, i) = "-"
         /\ StartsAt(c, e, ":s0")

\* C12: the constructor applied to what the constructor has made of a
\* context changes nothing; what it makes of a context that matches the
\* pattern is a type of word characters and hyphens, and a context that
\* does not match is left as it is.
C12_NormalizerIdempotent ==
  call.fn = "SEContext" =>
    /\ call.again => call.m_context = call.context
    /\ SEContextCtor(call.m_context) = call.m_context
    /\ MatchesContextPattern(call.context) =>
         /\ Len(call.m_context) > 0
         /\ \A i \in 1..Len(call.m_context) :
              IsWordCh(Ch(call.m_context, i)) \/ Ch(call.m_context, i) = "-"
    /\ ~MatchesContextPattern(call.context) => call.m_context = call.context

\* the constructor has been applied to the type it took out of a context
\* with categories
C12_Witness ==
  /\ call.fn = "SEContext" /\ call.again
  /\ call.context = "vendor-init" /\ call.m_context = "vendor-init"


(***************************************************************************)
(* Properties of the parser (AvcSpec)                                      *)
(***************************************************************************)

\* the tokens from "avc:" on end early: there is no second token, or after
\* granted or denied there is no "}" after the first operation, or nothing
\* follows the "}" or the "for"
EndsEarly(line) ==
  /\ Find(line, "avc:") # 0
  /\ LET t == AvcTokens(line)
         closes == { k \in 5..Len(t) : t[k] = "}" }
     IN  \/ Len(t) < 2
         \/ /\ t[2] \in {"granted", "denied"}
            /\ \/ closes = {}
               \/ \E k \in closes :
                    /\ \A j \in closes : k <= j
                    /\ k + 1 >= Len(t)

\* C13: on a line whose tokens end early the constructor returns, with an
\* invalid record, so that filter returns false: it reads no token past the
\* last one.
C13_EarlyEndIsInvalidRecord ==
  call.fn = "filter" /\ EndsEarly(call.line) =>
    call.fault = "none" /\ ~call.ret


\* C19: when the constructor has returned, for a valid or an invalid record,
\* misc_attributes holds none of scontext, tcontext, tclass, permissive.
C19_RequiredKeysRemoved ==
  call.fn = "filter" /\ call.fault = "none"
    /\ lineFacts[call.line].ctor.fault = "none" =>
      DOMAIN lineFacts[call.line].ctor.ctx.misc_attributes
        \cap {"scontext", "tcontext", "tclass", "permissive"} = {}


(***************************************************************************)
(* Properties of start and of the flag (Spec)                              *)
(***************************************************************************)

\* the state of a worker's pipeline
Phase(w) ==
  CASE wpc[w] = "idle" -> "Unstarted"
    [] wpc[w] \in {"open", "openlog"} -> "Opening"
    [] wpc[w] \in {"loop", "fgets"} -> "Running"
    [] wpc[w] \in {"release", "size", "write"} -> "Draining"
    [] wpc[w] = "closed" -> "Closed"

\* main has written run = false
Flipped == mpc \in {"join", "done"}

\* with run false no worker enters fgets
C14_NoReadBegunAfterFlip ==
  \A w \in Loggers :
    Flipped /\ wpc'[w] = "fgets" => wpc[w] = "fgets"

\* C14: once run is false, fgets returns to a worker at most once more (with
\* a line or with nothing), and the worker calls fgets no more.
C14_AtMostOneReadAfterFlip ==
  /\ [](\A w \in Loggers : afterFlip[w] <= 1)
  /\ [][C14_NoReadBegunAfterFlip]_vars

\* a worker was in fgets at the flip, fgets then returned nothing, and the
\* worker has closed; another case: it returned a line
C14_Witness ==
  \E w \in Loggers :
    /\ afterFlip[w] = 1 /\ wpc[w] = "closed" /\ reads[w] = 0
    /\ proc = "exited"

\* write was called for filter f of worker w: its file exists, or the
\* failure to open it was reported
Invoked(w, f) ==
  \/ FilterPath(w, f) \in DOMAIN dir
  \/ << w, "Failed to write " \o f >> \in logged

\* no write before the worker has closed; for a closed worker, write was
\* called for exactly the filters with a set that is not empty, the capture
\* file being kept and not empty
C15_WriteIffBothNonEmpty ==
  \A w \in Loggers :
    \A k \in 1..Len(FilterNames) :
      LET f == FilterNames[k]
      IN  /\ wpc[w] # "closed" => ~Invoked(w, f)
          /\ wpc[w] = "closed" =>
               (Invoked(w, f) <=>
                  /\ LogPath(w) \in DOMAIN dir
                  /\ dir[LogPath(w)] # ""
                  /\ filters[w][f] # {})

\* a write is called with the source released and logFile closed, and what
\* it has written is not written again
C15_WriteOnceAfterRelease ==
  \A w \in Loggers :
    \A k \in 1..Len(FilterNames) :
      LET f == FilterNames[k]
      IN  /\ ~Invoked(w, f) /\ Invoked(w, f)' =>
               fp[w] = "released" /\ ~logFile[w]
          /\ Invoked(w, f) =>
               /\ Invoked(w, f)'
               /\ (FilterPath(w, f) \in DOMAIN dir) = (FilterPath(w, f) \in DOMAIN dir')
               /\ FilterPath(w, f) \in DOMAIN dir =>
                    dir'[FilterPath(w, f)] = dir[FilterPath(w, f)]

\* C15: a filter's write is called exactly when the closed capture file is
\* not empty and the filter's set is not empty, once, after the source is
\* released and the capture file closed; never while the worker is running.
C15_DrainWrites ==
  /\ []C15_WriteIffBothNonEmpty
  /\ [][C15_WriteOnceAfterRelease]_vars

\* the logcat worker has closed having written the file of FilterAvc and
\* none for FilterLibc, whose set is empty
C15_Witness ==
  /\ wpc["logcat"] = "closed"
  /\ Invoked("logcat", "avc") /\ ~Invoked("logcat", "libc_properties")
  /\ filters["logcat"]["libc_properties"] = {}
  /\ dir[LogPath("logcat")] # ""

\* the moves of a pipeline
PhaseMoves ==
  { << "Unstarted", "Opening" >>, << "Opening", "Running" >>,
    << "Running", "Draining" >>, << "Draining", "Closed" >>,
    << "Opening", "Closed" >> }

\* a pipeline moves only along PhaseMoves; a closed one does nothing more;
\* the source is opened once and released once
C16_PhaseStep ==
  \A w \in Loggers :
    /\ Phase(w)' # Phase(w) => << Phase(w), Phase(w)' >> \in PhaseMoves
    /\ Phase(w) = "Opening" /\ Phase(w)' = "Closed" => OpenFailed(w)'
    /\ Phase(w) = "Closed" =>
         /\ UNCHANGED << wpc[w], fp[w], logFile[w], reads[w], arrived[w], filters[w] >>
         /\ \A path \in Artifacts(w) :
              /\ (path \in DOMAIN dir) = (path \in DOMAIN dir')
              /\ path \in DOMAIN dir => dir'[path] = dir[path]
    /\ fp'[w] # fp[w] =>
         << fp[w], fp'[w] >> \in { << "null", "open" >>, << "open", "released" >> }

\* a closed pipeline holds no open source: the source was never opened, the
\* failure being reported, or it has been released
C16_ClosedHasReleased ==
  \A w \in Loggers :
    wpc[w] = "closed" =>
      \/ fp[w] = "released"
      \/ fp[w] = "null" /\ << w, "Failed to open source" >> \in logged

\* C16: a pipeline moves Opening, Running, Draining, Closed, or from Opening
\* to Closed on a failed open; Closed is final; a source that was opened has
\* been released, once, when the pipeline is closed.
C16_StateMachine ==
  /\ []C16_ClosedHasReleased
  /\ [][C16_PhaseStep]_vars

\* a worker opened its source, could not open its capture file, and has
\* closed with the source released
C16_Witness ==
  \E w \in Loggers :
    /\ wpc[w] = "closed" /\ fp[w] = "released"
    /\ << w, "Failed to open logfile" >> \in logged

\* the lines of a sequence that FilterAvcGen::filter returns true for
GenMatches(seq) ==
  SelectSeq(seq, LAMBDA l : FilterAvcGenFilter(l).fault = "none"
                              /\ FilterAvcGenFilter(l).ret)

\* C17: while a worker runs, what FilterAvcGen has accumulated is the lines
\* it matched, in the order they were read, a line read twice held twice;
\* what FilterAvc has accumulated is the set of the lines it matched.
C17_GenHoldsArrivalOrder ==
  \A w \in Loggers :
    proc = "running" /\ Phase(w) = "Running" /\ "sepolicy.gen" \in Attached(w) =>
      /\ SetOrder(filters[w]["sepolicy.gen"]) = GenMatches(arrived[w])
      /\ filters[w]["avc"] =
           { arrived[w][k] : k \in { i \in 1..Len(arrived[w]) : lineFacts[arrived[w][i]].avc } }

\* what logFile holds is, line for line, what getline has yielded
CaptureIsArrival ==
  \A w \in Loggers :
    proc = "running" /\ Phase(w) = "Running" =>
      /\ SplitLines(dir[LogPath(w)]) = arrived[w]
      /\ Len(dir[LogPath(w)]) = Len(Join(arrived[w], "")) + Len(arrived[w])

\* C18: while a worker runs, and between two lines of its source, its
\* capture file holds the lines the source has given to fgets, each once
\* and on a line of its own, in that order.
C18_CaptureIsSourceLines ==
  \A w \in Loggers :
    proc = "running" /\ Phase(w) = "Running" /\ pending[w] = "" =>
      SplitLines(dir[LogPath(w)]) = delivered[w]

\* once threads are started, run changes only in main's step from the wait
\* to the joins, and from true to false
C20_OnlyMainFlips ==
  threads # << >> /\ run' # run =>
    mpc = "flip" /\ mpc' = "join" /\ run /\ ~run'

\* C20: after the threads are started, run is written once, by main after
\* the wait has returned, from true to false; no worker writes it, and it
\* stays false.
C20_FlagWrittenOnce ==
  /\ [](Flipped => ~run)
  /\ [][C20_OnlyMainFlips]_vars

\* main has returned, run is false, and a worker that read lines while run
\* was true has closed
C20_Witness ==
  /\ mpc = "done" /\ ~run
  /\ \E w \in Loggers : wpc[w] = "closed" /\ reads[w] > afterFlip[w]


(***************************************************************************)
(* Properties of the merge (MergeSpec)                                     *)
(***************************************************************************)

\* the fields of a record a merge step leaves alone
Untouched(r) ==
  << r.granted, r.scontext, r.tcontext, r.tclass, r.permissive, r.misc_attributes >>

\* ra, rb are what a += b has made of a and b, as the claim has it: nothing
\* when a record is stale or the keys differ; otherwise a has the union of
\* the operations and b is stale, and nothing else has changed
MergeEffect(a, b, ra, rb) ==
  /\ Untouched(ra) = Untouched(a) /\ Untouched(rb) = Untouched(b)
  /\ KeyOf(ra) = KeyOf(a) /\ KeyOf(rb) = KeyOf(b)
  /\ a.stale => ra.stale
  /\ b.stale => rb.stale
  /\ rb.operation = b.operation
  /\ ra.stale = a.stale
  /\ IF a.stale \/ b.stale \/ KeyOf(a) # KeyOf(b)
     THEN ra = a /\ rb = b
     ELSE ra.operation = a.operation \cup b.operation /\ rb.stale

\* a turn of write's inner loop has the effect of e1 += e2 on the two
\* records and none on the others; a turn with e1 and e2 the same record
\* has none
C22_CombineStep ==
  call.fn = "merge" /\ call'.fn = "merge" =>
    LET c == call.contexts
        d == call'.contexts
        i == call.e1
        j == call.e2
    IN  /\ Len(d) = Len(c)
        /\ \A k \in 1..Len(c) : k \notin {i, j} => d[k] = c[k]
        /\ \A k \in 1..Len(c) : c[k].stale => d[k].stale
        /\ IF i = j THEN d = c ELSE MergeEffect(c[i], c[j], d[i], d[j])

\* operator+= on two records as the constructor leaves them, an invalid one
\* among them or not
C22_CallEffect ==
  call.fn = "operator+=" => MergeEffect(call.a, call.b, call.ret.a, call.ret.b)

\* C22: a += b changes nothing when a or b is invalid or consumed or when
\* their keys (granted, scontext, tcontext, tclass) differ; otherwise it
\* changes a's operations, to the union with b's, and b's stale flag, and no
\* other field of a or b; a record that is stale stays stale.
C22_MergeStepFrame ==
  /\ []C22_CallEffect
  /\ [][C22_CombineStep]_vars

\* the loops of write are done on three records: two of one key, of which
\* one is consumed and the other holds the operations of both, and one of
\* another key, which is as it was
C22_Witness ==
  /\ call.fn = "merge" /\ call.e1 > Len(call.contexts) /\ Len(call.contexts) = 3
  /\ \E i, j, k \in 1..3 :
       /\ ~call.contexts[i].stale /\ call.contexts[i].operation = {"read", "write"}
       /\ call.contexts[j].stale /\ KeyOf(call.contexts[j]) = KeyOf(call.contexts[i])
       /\ ~call.contexts[k].stale /\ KeyOf(call.contexts[k]) # KeyOf(call.contexts[i])
       /\ call.contexts[k] = Translate(call.results)[k]

\* the operations a line names between its braces
OperationsOfLine(line) ==
  LET t == AvcTokens(line)
  IN  { t[k] : k \in 4..(ClosingBrace(t) - 1) }

\* the key of the record of a line, read from the line's tokens
KeyOfLine(line) ==
  << AvcTokens(line)[2] = "granted",
     SEContextCtor(ValueOfKey(line, "scontext")),
     SEContextCtor(ValueOfKey(line, "tcontext")),
     ValueOfKey(line, "tclass") >>

\* the operations an allow rule names
RuleOperations(rule) ==
  LET t == Tokens(rule)
  IN  IF Len(t) = 4 THEN { SubSeq(t[4], 1, Len(t[4]) - 1) }
      ELSE { t[k] : k \in 5..(Len(t) - 1) }

\* every operation of a record that is not stale is named by a line of
\* results that has the record's key
C24_OperationsComeFromKey ==
  call.fn \in {"merge", "format"} =>
    \A k \in 1..Len(call.contexts) :
      ~call.contexts[k].stale =>
        \A op \in call.contexts[k].operation :
          \E l \in call.results :
            /\ op \in OperationsOfLine(l)
            /\ l \in ValidLines
            /\ KeyOfLine(l) = KeyOf(call.contexts[k])

\* every operation of a rule written for S, T and C is named by a line of
\* results with source S, target T and class C
C24_RuleOperationsComeFromKey ==
  call.fn = "format" =>
    LET rules == SplitLines(out)
    IN  \A k \in 1..Len(rules) :
          \A op \in RuleOperations(rules[k]) :
            \E l \in call.results :
              /\ op \in OperationsOfLine(l)
              /\ l \in ValidLines
              /\ LET key == KeyOfLine(l)
                 IN  /\ Tokens(rules[k])[2] = key[2]
                     /\ Tokens(rules[k])[3] = key[3] \o ":" \o key[4]

\* an operation a record gains in a step was an operation of a record of
\* the same key
C24_NoMoveAcrossKeys ==
  call.fn = "merge" /\ call'.fn = "merge" =>
    \A k \in 1..Len(call.contexts) :
      \A op \in call'.contexts[k].operation \ call.contexts[k].operation :
        \E m \in 1..Len(call.contexts) :
          /\ KeyOf(call.contexts[m]) = KeyOf(call.contexts[k])
          /\ op \in call.contexts[m].operation

\* C24: after the merge, and at every turn of it, every operation of a
\* surviving record, and so of a written rule, is named by a valid line of
\* results with the same key; no operation moves to a record of another key.
C24_MergeInventsNothing ==
  /\ [](C24_OperationsComeFromKey /\ C24_RuleOperationsComeFromKey)
  /\ [][C24_NoMoveAcrossKeys]_vars

\* write has written two rules for three lines, one of them with the two
\* operations of the two lines of its key, the third line's key differing
\* from theirs in granted alone
C24_Witness ==
  /\ call.fn = "format" /\ Cardinality(call.results) = 3
  /\ Len(SplitLines(out)) = 2
  /\ \E k \in 1..2 : RuleOperations(SplitLines(out)[k]) = {"read", "write"}
  /\ \E l1 \in call.results, l2 \in call.results :
       /\ KeyOfLine(l1)[1] # KeyOfLine(l2)[1]
       /\ \A n \in 2..4 : KeyOfLine(l1)[n] = KeyOfLine(l2)[n]


(***************************************************************************)
(* Properties of what main starts (Spec)                                   *)
(***************************************************************************)

\* a worker holds lines and writes files for the filters of F alone
Carries(w, F) ==
  /\ Attached(w) = F
  /\ \A k \in 1..Len(FilterNames) :
       FilterNames[k] \notin F =>
         /\ filters[w][FilterNames[k]] = {}
         /\ FilterPath(w, FilterNames[k]) \notin DOMAIN dir

\* C23: once main is past the two starts, the kernel worker is started
\* exactly when ro.logd.kernel does not read as true; started, it carries
\* FilterAvc and FilterAvcGen when ReadKernelConfig returned 0 with
\* CONFIG_AUDIT built in, and no filter otherwise; the logcat worker is
\* started and carries FilterAvc, FilterAvcGen and FilterLibc.
C23_WhatMainStarts ==
  /\ mpc \in {"start_logcat", "wait", "flip", "join", "done"} =>
       /\ "dmesg" \in Started <=>
            env.logd_kernel \notin {"1", "y", "yes", "on", "true"}
       /\ "dmesg" \in Started =>
            IF env.ReadKernelConfig = 0 /\ env.CONFIG_AUDIT = "BUILT_IN"
            THEN Carries("dmesg", {"avc", "sepolicy.gen"})
            ELSE Carries("dmesg", {})
  /\ mpc \in {"wait", "flip", "join", "done"} =>
       /\ "logcat" \in Started
       /\ Carries("logcat", {"avc", "sepolicy.gen", "libc_properties"})
  /\ mpc \in {"setup", "start_kernel"} => Started = {}

\* main has returned having started the logcat worker alone, ro.logd.kernel
\* being true, and the worker has written the file of FilterAvc
C23_Witness ==
  /\ mpc = "done" /\ env.logd_kernel = "true" /\ Started = {"logcat"}
  /\ wpc["dmesg"] = "idle"
  /\ FilterPath("logcat", "avc") \in DOMAIN dir


(***************************************************************************)
(* Properties of what the workers access (Spec)                            *)
(***************************************************************************)

\* objects no thread writes while the workers run: the const statics, whose
\* initialisation the language serialises, and main's kLogDir, set before
\* the threads are started
ReadOnly == {"kLogDir", "kAvcMessageRegEX", "kSEContextRegex", "kPropertyAccessRegEX"}

\* the objects both workers have accessed
Shared ==
  { a[2] : a \in { b \in accessed : \E c \in accessed : c[2] = b[2] /\ c[1] # b[1] } }

\* no object but run, and those nobody writes, is accessed by both workers;
\* propsDenied is accessed by the logcat worker alone
C21_OnlyRunIsShared ==
  /\ Shared \subseteq {"run"} \cup ReadOnly
  /\ \A a \in accessed : a[2] = "propsDenied" => a[1] = "logcat"
  /\ \A w \in Loggers :
       \A o \in Artifacts(w) \cup {SourceOf(w)} \cup
                 { Local(w, n) : n \in {"buf", "_fp", "logFile", "filters"} } :
         \A a \in accessed : a[2] = o => a[1] = w

\* a file that a step creates, changes or removes, and propsDenied when a
\* step changes it, is among the objects a worker is recorded to access
C21_WritesAreRecorded ==
  /\ \A path \in DOMAIN dir \cup DOMAIN dir' :
       (path \in DOMAIN dir /\ path \in DOMAIN dir' => dir'[path] # dir[path]) =>
         \E w \in Loggers : << w, path >> \in accessed'
  /\ propsDenied' # propsDenied => << "logcat", "propsDenied" >> \in accessed'
  /\ \A w \in Loggers :
       << fp[w], logFile[w], filters[w] >>' # << fp[w], logFile[w], filters[w] >> =>
         \E n \in {"_fp", "logFile", "filters"} : << w, Local(w, n) >> \in accessed'

\* C21: but for run, the two workers access no object that is written while
\* they run: the source, the capture file, the filters' sets and the files
\* of a worker are accessed by that worker alone, and FilterLibc's
\* propsDenied by the logcat worker alone.
C21_WorkersShareOnlyRun ==
  /\ []C21_OnlyRunIsShared
  /\ [][C21_WritesAreRecorded]_vars

\* both workers, with all their filters, have read lines, tested run and
\* written a derived file, and main has returned
C21_Witness ==
  /\ mpc = "done" /\ has_audit /\ Started = Loggers
  /\ "run" \in Shared
  /\ << "logcat", "propsDenied" >> \in accessed
  /\ \A w \in Loggers : FilterPath(w, "avc") \in DOMAIN dir

====
